---- MODULE Spec2Model ----
(***************************************************************************)
(* Kan-Opener: the persisted board store (src/store/useBoardStore.ts), the *)
(* backing store adapter (src/utils/storage.ts) and the parts of the       *)
(* presentation layer that call them (App.tsx, Board.tsx, Column, Task,    *)
(* TaskModal, Curtain, QuickDock).                                         *)
(***************************************************************************)
EXTENDS Integers, Sequences, FiniteSets, TLC

(***************************************************************************)
(* Bounds of the model.                                                    *)
(***************************************************************************)
\* user interactions (store calls made from the UI, page reloads) per run
MaxOps == 2
\* user interactions per run of the web version (no chrome.storage.sync)
MaxWebOps == 3
\* page reloads per run of the load path alone
MaxReloads == 1
\* storage.setItem calls in flight when the user makes a further interaction
MaxInFlight == 2
\* last value of the millisecond clock Date.now() reads
MaxNow == 2
\* storage.setItem calls per run of storage.setItem alone
MaxSets == 3

(***************************************************************************)
(* Program constants.                                                      *)
(***************************************************************************)
MAX_RETRIES == 3
RETRY_DELAY == 300
\* persist option `version`
VERSION == 2
\* JS `undefined` as the value of an optional string field
Undefined == "undefined"
\* JS null / a key that is not stored
Null == <<>>

\* what the user types: titles of new tasks and columns, edited titles,
\* descriptions
Titles == {"a"}
EditedTitles == {"b"}
Descriptions == {"d"}
ErrorKinds == {"quota", "other"}

PersistedFields == {"tasks", "columns", "columnOrder", "theme", "bookmarks"}

(***************************************************************************)
(* JS helpers.                                                             *)
(***************************************************************************)
\* obj[key] spread into an object literal: nothing when the key is missing
Spread(obj, key) == IF key \in DOMAIN obj THEN obj[key] ELSE <<>>

\* delete obj[key]
Delete(obj, key) == [k \in DOMAIN obj \ {key} |-> obj[k]]

RECURSIVE DeleteAll(_, _)
DeleteAll(obj, keys) ==
    IF keys = <<>> THEN obj ELSE DeleteAll(Delete(obj, Head(keys)), Tail(keys))

\* array.filter(id => id !== x)
FilterOut(arr, x) == SelectSeq(arr, LAMBDA id : id # x)

\* array.includes(x)
Includes(arr, x) == \E i \in 1..Len(arr) : arr[i] = x

\* array.indexOf(x), 0-based, for an x the array includes
IndexOf(arr, x) == (CHOOSE i \in 1..Len(arr) : arr[i] = x /\ \A j \in 1..(i-1) : arr[j] # x) - 1

\* array.splice(start, 1) for start >= 0: the array that is left
SpliceRemove(arr, start) ==
    IF start >= Len(arr) THEN arr
    ELSE SubSeq(arr, 1, start) \o SubSeq(arr, start + 2, Len(arr))

\* array.splice(start, 0, item) for start >= 0
SpliceInsert(arr, start, item) ==
    LET at == IF start > Len(arr) THEN Len(arr) ELSE start
    IN  SubSeq(arr, 1, at) \o <<item>> \o SubSeq(arr, at + 1, Len(arr))

(***************************************************************************)
(* JSON: stringify drops the keys of a task whose value is undefined; the  *)
(* string is kept as the value it parses to.                               *)
(***************************************************************************)
JSONdropUndefined(obj) ==
    [k \in {f \in DOMAIN obj : f = "description" => obj[f] # Undefined} |-> obj[k]]

JSONstate(st) ==
    [k \in DOMAIN st |->
        IF k = "tasks" THEN [t \in DOMAIN st.tasks |-> JSONdropUndefined(st.tasks[t])]
        ELSE st[k]]

JSONvalue(v) ==
    [k \in DOMAIN v |-> IF k = "state" THEN JSONstate(v.state) ELSE v[k]]

JSONstringify(v) == [json |-> JSONvalue(v)]

Garbage == [garbage |-> TRUE]

JSONparses(str) == "json" \in DOMAIN str

JSONparse(str) == str.json

(***************************************************************************)
(* Initial state of the store (useBoardStore.ts:77-91).                    *)
(***************************************************************************)
Column(id, title, taskIds) == [id |-> id, title |-> title, taskIds |-> taskIds]

DefaultColumns ==
    ("todo" :> Column("todo", "To Do", <<>>)) @@
    ("in-progress" :> Column("in-progress", "In Progress", <<>>)) @@
    ("done" :> Column("done", "Done", <<>>))

DefaultColumnOrder == <<"todo", "in-progress", "done">>

DefaultBookmarks ==
    << [id |-> "b1", title |-> "Google", url |-> "https://google.com"],
       [id |-> "b2", title |-> "YouTube", url |-> "https://youtube.com"],
       [id |-> "b3", title |-> "Reddit", url |-> "https://reddit.com"] >>

\* the hydration flag initialised to true
InitialStateHydrated ==
    [ tasks |-> <<>>,
      columns |-> DefaultColumns,
      columnOrder |-> DefaultColumnOrder,
      isRevealed |-> FALSE,
      theme |-> "dark",
      bookmarks |-> DefaultBookmarks,
      _hasHydrated |-> TRUE ]

InitialState ==
    [ tasks |-> <<>>,
      columns |-> DefaultColumns,
      columnOrder |-> DefaultColumnOrder,
      isRevealed |-> FALSE,
      theme |-> "dark",
      bookmarks |-> DefaultBookmarks,
      _hasHydrated |-> FALSE ]

(***************************************************************************)
(* The store's actions: each is the function handed to set(), returning    *)
(* the partial state set() merges into the store.                          *)
(***************************************************************************)
setRevealed(revealed) == [isRevealed |-> revealed]

toggleTheme(state) == [theme |-> IF state.theme = "dark" THEN "light" ELSE "dark"]

\* the flag is written with the wrong value
setHasHydratedNegated(hydrated) == [_hasHydrated |-> ~hydrated]

setHasHydrated(hydrated) == [_hasHydrated |-> hydrated]

TaskId(clock) == "task-" \o ToString(clock)

addTask(state, columnId, title, description, clock) ==
    LET newTaskId == TaskId(clock)
    IN  [ tasks |->
            (newTaskId :> [ id |-> newTaskId, title |-> title,
                            description |-> description, createdAt |-> clock ])
            @@ state.tasks,
          columns |->
            (columnId :> ([taskIds |-> Append(state.columns[columnId].taskIds, newTaskId)]
                          @@ state.columns[columnId]))
            @@ state.columns ]

updateTask(state, taskId, title, description) ==
    [ tasks |->
        (taskId :> ([title |-> title, description |-> description]
                    @@ Spread(state.tasks, taskId)))
        @@ state.tasks ]

\* the task is taken out of the column's list and left in the task map
deleteTaskListOnly(state, taskId, columnId) ==
    [ columns |->
        (columnId :> ([taskIds |-> FilterOut(state.columns[columnId].taskIds, taskId)]
                      @@ state.columns[columnId]))
        @@ state.columns ]

\* the task is deleted only when the column lists it
deleteTaskIfListed(state, taskId, columnId) ==
    IF Includes(state.columns[columnId].taskIds, taskId)
    THEN [ tasks |-> Delete(state.tasks, taskId),
           columns |->
             (columnId :> ([taskIds |-> FilterOut(state.columns[columnId].taskIds, taskId)]
                           @@ state.columns[columnId]))
             @@ state.columns ]
    ELSE [ tasks |-> state.tasks ]

deleteTask(state, taskId, columnId) ==
    [ tasks |-> Delete(state.tasks, taskId),
      columns |->
        (columnId :> ([taskIds |-> FilterOut(state.columns[columnId].taskIds, taskId)]
                      @@ state.columns[columnId]))
        @@ state.columns ]

\* the task is put at the end of the destination whatever destIndex is
moveTaskAppend(state, taskId, sourceColumnId, destColumnId, sourceIndex, destIndex) ==
    LET startTaskIds == SpliceRemove(state.columns[sourceColumnId].taskIds, sourceIndex)
        left == (sourceColumnId :> ([taskIds |-> startTaskIds] @@ state.columns[sourceColumnId]))
                @@ state.columns
    IN  [ columns |->
            (destColumnId :> ([taskIds |-> Append(left[destColumnId].taskIds, taskId)]
                              @@ left[destColumnId]))
            @@ left ]

moveTask(state, taskId, sourceColumnId, destColumnId, sourceIndex, destIndex) ==
    LET startColumn == state.columns[sourceColumnId]
        finishColumn == state.columns[destColumnId]
    IN  IF sourceColumnId = destColumnId
        THEN LET newTaskIds ==
                    SpliceInsert(SpliceRemove(startColumn.taskIds, sourceIndex),
                                 destIndex, taskId)
             IN  [ columns |->
                     (sourceColumnId :> ([taskIds |-> newTaskIds] @@ startColumn))
                     @@ state.columns ]
        ELSE LET startTaskIds == SpliceRemove(startColumn.taskIds, sourceIndex)
                 finishTaskIds == SpliceInsert(finishColumn.taskIds, destIndex, taskId)
             IN  [ columns |->
                     (destColumnId :> ([taskIds |-> finishTaskIds] @@ finishColumn))
                     @@ (sourceColumnId :> ([taskIds |-> startTaskIds] @@ startColumn))
                     @@ state.columns ]

ColumnId(clock) == "col-" \o ToString(clock)

addColumn(state, title, clock) ==
    LET newColumnId == ColumnId(clock)
    IN  [ columns |-> (newColumnId :> Column(newColumnId, title, <<>>)) @@ state.columns,
          columnOrder |-> Append(state.columnOrder, newColumnId) ]

updateColumnTitle(state, columnId, title) ==
    [ columns |->
        (columnId :> ([title |-> title] @@ Spread(state.columns, columnId)))
        @@ state.columns ]

\* the tasks of the column are left in the task map
deleteColumnNoCascade(state, columnId) ==
    IF columnId = "done" THEN state
    ELSE [ columns |-> Delete(state.columns, columnId),
           columnOrder |-> FilterOut(state.columnOrder, columnId) ]

\* no guard for the done column
deleteColumnUnguarded(state, columnId) ==
    LET columnTasks == state.columns[columnId].taskIds
    IN  [ columns |-> Delete(state.columns, columnId),
          tasks |-> DeleteAll(state.tasks, columnTasks),
          columnOrder |-> FilterOut(state.columnOrder, columnId) ]

deleteColumn(state, columnId) ==
    IF columnId = "done" THEN state
    ELSE LET columnTasks == state.columns[columnId].taskIds
         IN  [ columns |-> Delete(state.columns, columnId),
               tasks |-> DeleteAll(state.tasks, columnTasks),
               columnOrder |-> FilterOut(state.columnOrder, columnId) ]

\* the done column is not put back at the end
moveColumnNoPin(state, sourceIndex, destIndex) ==
    LET removed == state.columnOrder[sourceIndex + 1]
    IN  [columnOrder |->
            SpliceInsert(SpliceRemove(state.columnOrder, sourceIndex), destIndex, removed)]

moveColumn(state, sourceIndex, destIndex) ==
    LET removed == state.columnOrder[sourceIndex + 1]
        newColumnOrder ==
            SpliceInsert(SpliceRemove(state.columnOrder, sourceIndex), destIndex, removed)
    IN  IF /\ Includes(newColumnOrder, "done")
           /\ IndexOf(newColumnOrder, "done") # Len(newColumnOrder) - 1
        THEN [columnOrder |-> Append(FilterOut(newColumnOrder, "done"), "done")]
        ELSE [columnOrder |-> newColumnOrder]

BookmarkId(clock) == "bm-" \o ToString(clock)

addBookmark(state, title, url, clock) ==
    [bookmarks |-> Append(state.bookmarks, [id |-> BookmarkId(clock), title |-> title, url |-> url])]

removeBookmark(state, id) ==
    [bookmarks |-> SelectSeq(state.bookmarks, LAMBDA b : b.id # id)]

(***************************************************************************)
(* persist options (useBoardStore.ts:252-311).                             *)
(***************************************************************************)
\* no partialize option: the whole state is persisted
partializeNothing(state) == state

partialize(state) ==
    [ tasks |-> state.tasks,
      columns |-> state.columns,
      columnOrder |-> state.columnOrder,
      theme |-> state.theme,
      bookmarks |-> state.bookmarks ]

\* the fallback taken whatever is stored
OrDefaultAlways(state, field, fallback) == fallback

\* state?.field || fallback; every persisted field value is truthy when present
OrDefault(state, field, fallback) ==
    IF field \in DOMAIN state THEN state[field] ELSE fallback

\* the coalesce applied at every stored version
migrateAnyVersion(persistedState, version) ==
    [ tasks |-> OrDefault(persistedState, "tasks", <<>>),
      columns |-> OrDefault(persistedState, "columns", DefaultColumns),
      columnOrder |-> OrDefault(persistedState, "columnOrder", DefaultColumnOrder),
      theme |-> OrDefault(persistedState, "theme", "dark"),
      bookmarks |-> OrDefault(persistedState, "bookmarks", DefaultBookmarks) ]

\* no coalesce at any stored version
migratePassthrough(persistedState, version) == persistedState

migrate(persistedState, version) ==
    IF version < 2
    THEN [ tasks |-> OrDefault(persistedState, "tasks", <<>>),
           columns |-> OrDefault(persistedState, "columns", DefaultColumns),
           columnOrder |-> OrDefault(persistedState, "columnOrder", DefaultColumnOrder),
           theme |-> OrDefault(persistedState, "theme", "dark"),
           bookmarks |-> OrDefault(persistedState, "bookmarks", DefaultBookmarks) ]
    ELSE persistedState

(***************************************************************************)
(* Presentation layer: what App renders for a store state.                 *)
(***************************************************************************)
\* Board.tsx:93-96 reads column.taskIds of every id in columnOrder
Board(state) ==
    IF \A i \in 1..Len(state.columnOrder) :
          /\ state.columnOrder[i] \in DOMAIN state.columns
          /\ "taskIds" \in DOMAIN state.columns[state.columnOrder[i]]
    THEN "board" ELSE "error"

\* App without the loading screen
AppUngated(state) == Board(state)

App(state) == IF ~state._hasHydrated THEN "loading" ELSE Board(state)

(***************************************************************************)
(* Records persisted by earlier sessions, as found in the backends at boot.*)
(***************************************************************************)
OldTask == [id |-> "task-0", title |-> "a", createdAt |-> 0]

\* first clock value of a run: later than the persisted task's creation
T0 == OldTask.createdAt + 1

V2Doc ==
    [ state |->
        [ tasks |-> ("task-0" :> OldTask),
          columns |-> ("todo" :> Column("todo", "To Do", <<>>)) @@
                      ("col-0" :> Column("col-0", "a", <<"task-0">>)) @@
                      ("done" :> Column("done", "Done", <<>>)),
          columnOrder |-> <<"todo", "col-0", "done">>,
          theme |-> "light",
          bookmarks |-> <<[id |-> "b1", title |-> "Google", url |-> "https://google.com"]>> ],
      version |-> 2 ]

\* a version 1 record that holds only tasks and columnOrder
V1Doc ==
    [ state |-> [ tasks |-> ("task-0" :> OldTask), columnOrder |-> <<"todo", "done">> ],
      version |-> 1 ]

\* a version 1 record of a board with a custom column
V1Custom ==
    [ state |-> [ tasks |-> ("task-0" :> OldTask),
                  columnOrder |-> <<"todo", "col-0", "done">>,
                  isRevealed |-> TRUE ],
      version |-> 1 ]

SyncValues == {Null, V2Doc, V1Doc, V1Custom}
LocalValues == {Null, Garbage, JSONstringify(V2Doc)}

\* <<chrome.storage.sync available, its record, the localStorage item>> at boot
BootStores ==
    {<<TRUE, s, Null>> : s \in SyncValues}
    \cup {<<TRUE, Null, JSONstringify(V2Doc)>>, <<TRUE, V2Doc, Garbage>>}

(***************************************************************************)
(* State.                                                                  *)
(***************************************************************************)
VARIABLES
    tasks, columns, columnOrder, isRevealed, theme, bookmarks, _hasHydrated,
    now,            \* Date.now()
    view,           \* what App has rendered
    ops,            \* user interactions left in this run
    timers,         \* task ids of the pending shredder timeouts, oldest first
    chrome,         \* typeof chrome !== 'undefined' && chrome.storage.sync
    sync,           \* chrome.storage.sync record under the key
    local,          \* localStorage item under the key
    saves,          \* storage.setItem calls in flight, in dispatch order
    lastSet,        \* the storage.setItem call that settled last
    pc,             \* position of the load path
    defaultValue,   \* storage.getItem's defaultValue
    attempt,        \* storage.getItem's loop variable
    delays,         \* the delay(ms) calls storage.getItem has made
    got,            \* value storage.getItem resolved with
    primaryRead,    \* outcome of the last chrome.storage.sync.get
    localRead,      \* outcome of localStorage.getItem in storage.getItem
    flips,          \* times _hasHydrated went false -> true in this load cycle
    migrated        \* the last direct call of migrate: arguments and result

storeVars == <<tasks, columns, columnOrder, isRevealed, theme, bookmarks, _hasHydrated>>
loadVars == <<pc, defaultValue, attempt, delays, got, primaryRead, localRead, migrated>>
vars == <<tasks, columns, columnOrder, isRevealed, theme, bookmarks, _hasHydrated,
          now, view, ops, timers, chrome, sync, local, saves, lastSet,
          pc, defaultValue, attempt, delays, got, primaryRead, localRead, flips,
          migrated>>

State ==
    [ tasks |-> tasks, columns |-> columns, columnOrder |-> columnOrder,
      isRevealed |-> isRevealed, theme |-> theme, bookmarks |-> bookmarks,
      _hasHydrated |-> _hasHydrated ]

NoSet ==
    [ value |-> Null, failed |-> "none", error |-> "none",
      wroteSync |-> FALSE, wroteLocal |-> FALSE, outcome |-> "none" ]

\* hydrate() runs when the store is created and calls storage.getItem(name, null)
StartPc(chromeAvailable) == IF chromeAvailable THEN "sync.get" ELSE "localStorage"

BootAt(store, interactions, clock) ==
    /\ chrome = store[1]
    /\ sync = store[2]
    /\ local = store[3]
    /\ tasks = InitialState.tasks
    /\ columns = InitialState.columns
    /\ columnOrder = InitialState.columnOrder
    /\ isRevealed = InitialState.isRevealed
    /\ theme = InitialState.theme
    /\ bookmarks = InitialState.bookmarks
    /\ _hasHydrated = InitialState._hasHydrated
    /\ now = clock
    /\ view = App(InitialState)
    /\ ops = interactions
    /\ timers = <<>>
    /\ saves = <<>>
    /\ lastSet = NoSet
    /\ pc = StartPc(store[1])
    /\ attempt = 1
    /\ delays = <<>>
    /\ got = Null
    /\ primaryRead = "none"
    /\ localRead = "none"
    /\ flips = 0
    /\ migrated = Null

Boot(store, interactions) == BootAt(store, interactions, T0)

\* the web version (README: npm run dev): no chrome.storage.sync
WebStores == {<<FALSE, Null, l>> : l \in LocalValues}

Init ==
    /\ defaultValue = Null
    /\ \E store \in BootStores : Boot(store, MaxOps)

(***************************************************************************)
(* zustand set() and the persist middleware around it.                     *)
(***************************************************************************)
\* the value storage.setItem receives: partialize, JSON.stringify in
\* createJSONStorage, JSON.parse in customStorage.setItem
Envelope(state) == JSONparse(JSONstringify([state |-> partialize(state), version |-> VERSION]))

Settled(value, failed, error, wroteSync, wroteLocal, outcome) ==
    [ value |-> value, failed |-> failed, error |-> error,
      wroteSync |-> wroteSync, wroteLocal |-> wroteLocal, outcome |-> outcome ]

\* setItem(): with chrome.storage.sync the call suspends at getBytesInUse;
\* without it storage.setItem writes localStorage before returning
Persist(state, awaited) ==
    IF chrome
    THEN /\ saves' = Append(saves, [value |-> Envelope(state), pc |-> "getBytesInUse",
                                    logged |-> {},
                                    awaited |-> awaited, detached |-> FALSE])
         /\ UNCHANGED <<local, lastSet>>
    ELSE /\ \E r \in {"ok"} \cup ErrorKinds :
               IF r = "ok"
               THEN /\ local' = JSONstringify(Envelope(state))
                    /\ lastSet' = Settled(Envelope(state), "none", "none", FALSE, TRUE, "resolved")
               ELSE /\ local' = local
                    /\ lastSet' = Settled(Envelope(state), "localStorage", r, FALSE, FALSE, "rejected")
         /\ UNCHANGED saves

\* the store takes the new state and its subscribers (App) render it
Assign(state) ==
    /\ tasks' = state.tasks
    /\ columns' = state.columns
    /\ columnOrder' = state.columnOrder
    /\ isRevealed' = state.isRevealed
    /\ theme' = state.theme
    /\ bookmarks' = state.bookmarks
    /\ _hasHydrated' = state._hasHydrated
    /\ view' = App(state)

\* history: one more flip when the hydration flag goes from false to true
CountFlip(state) ==
    flips' = IF ~_hasHydrated /\ state._hasHydrated THEN flips + 1 ELSE flips

\* the save is made from the state before the merge
SetSaveBefore(partial) ==
    LET state == partial @@ State
    IN  Assign(state) /\ CountFlip(state) /\ Persist(State, FALSE)

\* the set handed to the store's actions: merge, then void setItem()
Set(partial) ==
    LET state == partial @@ State
    IN  Assign(state) /\ CountFlip(state) /\ Persist(state, FALSE)

(***************************************************************************)
(* storage.getItem (storage.ts:7-47), called by customStorage.getItem from *)
(* the persist middleware's hydrate().                                     *)
(***************************************************************************)
\* one chrome.storage.sync.get attempt settles
SyncGet ==
    /\ pc = "sync.get"
    /\ \E ok \in BOOLEAN :
          IF ok
          THEN /\ got' = IF sync # Null THEN sync ELSE defaultValue
               /\ primaryRead' = "ok"
               /\ pc' = "then"
          ELSE /\ primaryRead' = "failed"
               /\ pc' = IF attempt < MAX_RETRIES THEN "delay" ELSE "localStorage"
               /\ got' = got
    /\ UNCHANGED <<storeVars, now, view, ops, timers, chrome, sync, local, saves, lastSet,
                   defaultValue, migrated, attempt, delays, localRead, flips>>

\* the same wait before every retry
DelayFixed ==
    /\ pc = "delay"
    /\ delays' = Append(delays, RETRY_DELAY)
    /\ attempt' = attempt + 1
    /\ pc' = "sync.get"
    /\ UNCHANGED <<storeVars, now, view, ops, timers, chrome, sync, local, saves, lastSet,
                   defaultValue, migrated, got, primaryRead, localRead, flips>>

\* await delay(RETRY_DELAY * attempt), then the next iteration
Delay ==
    /\ pc = "delay"
    /\ delays' = Append(delays, RETRY_DELAY * attempt)
    /\ attempt' = attempt + 1
    /\ pc' = "sync.get"
    /\ UNCHANGED <<storeVars, now, view, ops, timers, chrome, sync, local, saves, lastSet,
                   defaultValue, migrated, got, primaryRead, localRead, flips>>

\* a parse error answered with null instead of the default
LocalValueNullOnError(value) ==
    IF value = Null THEN defaultValue
    ELSE IF JSONparses(value) THEN JSONparse(value)
    ELSE Null

\* the item handed on as it is when it cannot be parsed
LocalValueUnparsed(value) ==
    IF value = Null THEN defaultValue
    ELSE IF JSONparses(value) THEN JSONparse(value)
    ELSE value

\* value ? JSON.parse(value) : defaultValue, inside try/catch
LocalValue(value) ==
    IF value = Null THEN defaultValue
    ELSE IF JSONparses(value) THEN JSONparse(value)
    ELSE defaultValue

\* the localStorage read, as fallback or as the only backend
LocalGet ==
    /\ pc = "localStorage"
    /\ \E threw \in BOOLEAN :
          IF threw
          THEN localRead' = "threw" /\ got' = defaultValue
          ELSE localRead' = "ok" /\ got' = LocalValue(local)
    /\ pc' = "then"
    /\ UNCHANGED <<storeVars, now, view, ops, timers, chrome, sync, local, saves, lastSet,
                   defaultValue, migrated, attempt, delays, primaryRead, flips>>

(***************************************************************************)
(* persist middleware, hydrate(): the chain after storage.getItem.         *)
(***************************************************************************)
\* customStorage.getItem stringifies a truthy value, createJSONStorage parses it
Deserialized(value) == IF value # Null THEN JSONparse(JSONstringify(value)) ELSE Null

NeedsMigration(value) ==
    /\ value # Null
    /\ "version" \in DOMAIN value
    /\ value.version # VERSION

\* the state to merge: migrated, or the stored state as it is
StateFromStorage(value) ==
    IF value = Null THEN Null
    ELSE IF NeedsMigration(value) THEN migrate(Spread(value, "state"), value.version)
    ELSE Spread(value, "state")

\* the default merge of persist: shallow, persisted fields win; only the
\* fields of the store are kept here
Merge(persistedState, currentState) ==
    [k \in DOMAIN currentState |->
        IF k \in DOMAIN persistedState THEN persistedState[k] ELSE currentState[k]]

\* merge into the store with the plain set (no save); a migrated state is
\* saved and the chain waits for that save
Rehydrate ==
    /\ pc = "then"
    /\ LET value == Deserialized(got)
           state == Merge(StateFromStorage(value), State)
       IN  /\ Assign(state)
           /\ CountFlip(state)
           /\ IF NeedsMigration(value)
              THEN /\ Persist(state, TRUE)
                   /\ pc' = IF chrome THEN "setItem"
                            ELSE IF lastSet'.outcome = "resolved" THEN "callback"
                            ELSE "callbackError"
              ELSE /\ pc' = "callback"
                   /\ UNCHANGED <<local, saves, lastSet>>
    /\ attempt' = 1
    /\ delays' = <<>>
    /\ got' = Null
    /\ primaryRead' = "none"
    /\ localRead' = "none"
    /\ UNCHANGED <<now, ops, timers, chrome, sync, defaultValue, migrated>>

\* onRehydrateStorage's callback: both branches call setHasHydrated(true)
OnRehydrateStorage ==
    /\ pc \in {"callback", "callbackError"}
    /\ Set(setHasHydrated(TRUE))
    /\ pc' = "done"
    /\ UNCHANGED <<now, ops, timers, chrome, sync,
                   defaultValue, migrated, attempt, delays, got, primaryRead, localRead>>

(***************************************************************************)
(* storage.setItem with chrome.storage.sync (storage.ts:50-80): the steps  *)
(* of the i-th call in flight.                                             *)
(***************************************************************************)
RemoveAt(seq, i) == SubSeq(seq, 1, i - 1) \o SubSeq(seq, i + 1, Len(seq))

\* every primary failure handled as a quota failure
IsQuotaErrorAlways(error) == TRUE

IsQuotaError(error) == error = "quota"

\* a rejected call puts the fresh document back into the store
SettleRollback(i, settled) ==
    /\ saves' = RemoveAt(saves, i)
    /\ lastSet' = settled
    /\ pc' = IF saves[i].awaited
             THEN (IF settled.outcome = "resolved" THEN "callback" ELSE "callbackError")
             ELSE pc
    /\ IF settled.outcome = "rejected"
       THEN Assign(partialize(InitialState) @@ State)
       ELSE UNCHANGED <<storeVars, view>>
    /\ UNCHANGED flips

\* the call settles; the hydrate chain resumes if it waited for this call;
\* nothing on the way (customStorage.setItem, the middleware's setItem)
\* catches the rejection or calls set
Settle(i, settled) ==
    /\ saves' = RemoveAt(saves, i)
    /\ lastSet' = settled
    /\ pc' = IF saves[i].awaited
             THEN (IF settled.outcome = "resolved" THEN "callback" ELSE "callbackError")
             ELSE pc
    /\ UNCHANGED <<storeVars, view, flips>>

\* catch (error): localStorage on a quota message, then throw error
Catch(i, failed, error) ==
    IF IsQuotaError(error)
    THEN \E threw \in BOOLEAN :
            /\ local' = IF threw THEN local ELSE JSONstringify(saves[i].value)
            /\ Settle(i, Settled(saves[i].value, failed, error, FALSE, ~threw, "rejected"))
    ELSE /\ local' = local
         /\ Settle(i, Settled(saves[i].value, failed, error, FALSE, FALSE, "rejected"))

\* titles that stand for strings of 9,000 and of 110,000 bytes
LongTitle == "long"
HugeTitle == "huge"

\* UTF-8 length of a string of the model
ByteLength(str) ==
    IF str = HugeTitle THEN 110000 ELSE IF str = LongTitle THEN 9000 ELSE Len(str)

RECURSIVE TitleBytes(_, _)
TitleBytes(taskMap, ids) ==
    IF ids = {} THEN 0
    ELSE LET id == CHOOSE t \in ids : TRUE
         IN  ByteLength(taskMap[id].title) + TitleBytes(taskMap, ids \ {id})

\* new Blob([JSON.stringify(value)]).size, of which the model counts the
\* bytes of the task titles
EstimatedSize(value) ==
    LET taskMap == Spread(Spread(value, "state"), "tasks")
    IN  TitleBytes(taskMap, DOMAIN taskMap)

\* what getBytesInUse(key) resolves with: the size of the record under the key
BytesInUse(record) == IF record = Null THEN 0 ELSE EstimatedSize(record)

\* a value over a limit is not written
SizeChecksBlocking(estimatedSize, bytesInUse) ==
    [ logged |-> (IF estimatedSize > 8192 THEN {"warn"} ELSE {})
                 \cup (IF bytesInUse + estimatedSize > 102400 THEN {"error"} ELSE {}),
      pc |-> IF estimatedSize > 8192 \/ bytesInUse + estimatedSize > 102400
             THEN "return" ELSE "sync.set" ]

\* storage.ts:56-62: console.warn over the per-item cap, console.error over
\* the total quota; line 64 follows in either case
SizeChecks(estimatedSize, bytesInUse) ==
    [ logged |-> (IF estimatedSize > 8192 THEN {"warn"} ELSE {})
                 \cup (IF bytesInUse + estimatedSize > 102400 THEN {"error"} ELSE {}),
      pc |-> "sync.set" ]

\* await chrome.storage.sync.getBytesInUse(key), then the size checks; a read
\* is not rejected for quota
GetBytesInUse(i) ==
    /\ saves[i].pc = "getBytesInUse"
    /\ \E r \in {"ok", "other"} :
          IF r = "ok"
          THEN /\ LET checks == SizeChecks(EstimatedSize(saves[i].value), BytesInUse(sync))
                  IN  saves' = [saves EXCEPT ![i].pc = checks.pc,
                                             ![i].logged = checks.logged]
               /\ UNCHANGED <<storeVars, view, flips, local, lastSet, pc>>
          ELSE Catch(i, "getBytesInUse", r)
    /\ UNCHANGED <<now, ops, timers, chrome, sync,
                   defaultValue, migrated, attempt, delays, got, primaryRead, localRead>>

\* await chrome.storage.sync.set({ [key]: value })
SyncSet(i) ==
    /\ saves[i].pc = "sync.set"
    /\ ~saves[i].detached
    /\ \E r \in {"ok"} \cup ErrorKinds :
          IF r = "ok"
          THEN /\ sync' = saves[i].value
               /\ local' = local
               /\ Settle(i, Settled(saves[i].value, "none", "none", TRUE, FALSE, "resolved"))
          ELSE /\ sync' = sync
               /\ Catch(i, "sync.set", r)
    /\ UNCHANGED <<now, ops, timers, chrome,
                   defaultValue, migrated, attempt, delays, got, primaryRead, localRead>>

\* a chrome.storage.sync.set issued by a page that has since been reloaded:
\* the backend still applies or rejects it, no handler of the page runs
DetachedSyncSet(i) ==
    /\ saves[i].pc = "sync.set"
    /\ saves[i].detached
    /\ \E ok \in BOOLEAN : sync' = IF ok THEN saves[i].value ELSE sync
    /\ saves' = RemoveAt(saves, i)
    /\ UNCHANGED <<storeVars, now, view, ops, timers, chrome, local, lastSet,
                   loadVars, flips>>

SaveStep == \E i \in 1..Len(saves) : GetBytesInUse(i) \/ SyncSet(i) \/ DetachedSyncSet(i)

(***************************************************************************)
(* User interactions, with the arguments the components pass.              *)
(***************************************************************************)
\* Board.tsx:95-97, the tasks a column shows
ColumnTasks(columnId) ==
    SelectSeq(columns[columnId].taskIds, LAMBDA taskId : taskId \in DOMAIN tasks)

Shown(columnId) == Includes(columnOrder, columnId)

\* the board is on screen and the curtain is up
CanUse == view = "board" /\ isRevealed /\ ops > 0

UserSet(partial) ==
    /\ Len(saves) < MaxInFlight
    /\ ops' = ops - 1
    /\ Set(partial)
    /\ UNCHANGED <<now, chrome, sync, loadVars>>

\* Curtain: logo or "Open Kan"
Reveal ==
    /\ view = "board" /\ ~isRevealed /\ ops > 0
    /\ UserSet(setRevealed(TRUE))
    /\ UNCHANGED timers

\* App header: re-lock button
Hide ==
    /\ CanUse
    /\ UserSet(setRevealed(FALSE))
    /\ UNCHANGED timers

ToggleTheme ==
    /\ CanUse
    /\ UserSet(toggleTheme(State))
    /\ UNCHANGED timers

\* Column: inline add-task input (not offered in done)
AddTask ==
    /\ CanUse
    /\ \E columnId \in DOMAIN columns, title \in Titles :
          /\ Shown(columnId) /\ columnId # "done"
          /\ UserSet(addTask(State, columnId, title, Undefined, now))
    /\ UNCHANGED timers

\* TaskModal.handleSubmit for a task the column shows
EditTask ==
    /\ CanUse
    /\ \E columnId \in DOMAIN columns, title \in EditedTitles, description \in Descriptions :
          /\ Shown(columnId)
          /\ \E i \in 1..Len(ColumnTasks(columnId)) :
                UserSet(updateTask(State, ColumnTasks(columnId)[i], title, description))
    /\ UNCHANGED timers

\* Task: delete button
DeleteTask ==
    /\ CanUse
    /\ \E columnId \in DOMAIN columns :
          /\ Shown(columnId)
          /\ \E i \in 1..Len(ColumnTasks(columnId)) :
                UserSet(deleteTask(State, ColumnTasks(columnId)[i], columnId))
    /\ UNCHANGED timers

\* Board.onDragEnd for a task: moveTask, and the shredder timeout when the
\* task is dropped into done from another column
DragTask ==
    /\ CanUse
    /\ \E source \in DOMAIN columns, dest \in DOMAIN columns :
          /\ Shown(source) /\ Shown(dest)
          /\ \E sourceIndex \in 0..(Len(ColumnTasks(source)) - 1),
                destIndex \in 0..Len(ColumnTasks(dest)) :
                /\ source = dest => destIndex < Len(ColumnTasks(dest)) /\ destIndex # sourceIndex
                /\ LET draggableId == ColumnTasks(source)[sourceIndex + 1]
                   IN  /\ UserSet(moveTask(State, draggableId, source, dest, sourceIndex, destIndex))
                       /\ timers' = IF dest = "done" /\ source # "done"
                                    THEN Append(timers, draggableId) ELSE timers

\* Board.onDragEnd for a column (done cannot be dragged)
DragColumn ==
    /\ CanUse
    /\ \E sourceIndex \in 0..(Len(columnOrder) - 1), destIndex \in 0..(Len(columnOrder) - 1) :
          /\ sourceIndex # destIndex
          /\ columnOrder[sourceIndex + 1] # "done"
          /\ UserSet(moveColumn(State, sourceIndex, destIndex))
    /\ UNCHANGED timers

\* Board.handleAddColumn
AddColumn ==
    /\ CanUse
    /\ \E title \in Titles : UserSet(addColumn(State, title, now))
    /\ UNCHANGED timers

\* Column.handleTitleSubmit
RenameColumn ==
    /\ CanUse
    /\ \E columnId \in DOMAIN columns, title \in EditedTitles :
          /\ Shown(columnId)
          /\ UserSet(updateColumnTitle(State, columnId, title))
    /\ UNCHANGED timers

\* Column.handleDeleteColumn (not offered in done)
DeleteColumn ==
    /\ CanUse
    /\ \E columnId \in DOMAIN columns :
          /\ Shown(columnId) /\ columnId # "done"
          /\ UserSet(deleteColumn(State, columnId))
    /\ UNCHANGED timers

\* QuickDock.handleAddSubmit
AddBookmark ==
    /\ CanUse
    /\ UserSet(addBookmark(State, "a", "https://a", now))
    /\ UNCHANGED timers

\* QuickDock: remove button of a bookmark
RemoveBookmark ==
    /\ CanUse
    /\ \E i \in 1..Len(bookmarks) : UserSet(removeBookmark(State, bookmarks[i].id))
    /\ UNCHANGED timers

\* triggerShredder's setTimeout fires: deleteTask(taskId, 'done')
Shredder ==
    /\ timers # <<>>
    /\ Set(deleteTask(State, Head(timers), "done"))
    /\ timers' = Tail(timers)
    /\ UNCHANGED <<now, ops, chrome, sync, loadVars>>

\* the calls whose chrome.storage.sync.set has been issued
IssuedWrites(calls) == SelectSeq(calls, LAMBDA call : call.pc = "sync.set")

\* the page is loaded again: a new store, a new load cycle; pending
\* continuations and timeouts of the old page are gone
Restart ==
    /\ Assign(InitialState)
    /\ flips' = 0
    /\ timers' = <<>>
    /\ saves' = [i \in 1..Len(IssuedWrites(saves)) |->
                    [IssuedWrites(saves)[i] EXCEPT !.awaited = FALSE, !.detached = TRUE]]
    /\ pc' = StartPc(chrome)
    /\ attempt' = 1
    /\ delays' = <<>>
    /\ got' = Null
    /\ primaryRead' = "none"
    /\ localRead' = "none"
    /\ UNCHANGED <<now, lastSet, defaultValue, migrated>>

Reload ==
    /\ ops > 0
    /\ ops' = ops - 1
    /\ Restart
    /\ UNCHANGED <<chrome, sync, local>>

Tick ==
    /\ now < MaxNow
    /\ now' = now + 1
    /\ UNCHANGED <<storeVars, view, ops, timers, chrome, sync, local, saves, lastSet,
                   loadVars, flips>>

LoadStep == SyncGet \/ Delay \/ LocalGet \/ Rehydrate \/ OnRehydrateStorage

UserStep ==
    \/ Reveal \/ Hide \/ ToggleTheme
    \/ AddTask \/ EditTask \/ DeleteTask \/ DragTask
    \/ AddColumn \/ RenameColumn \/ DeleteColumn \/ DragColumn
    \/ AddBookmark \/ RemoveBookmark

Next == LoadStep \/ SaveStep \/ UserStep \/ Shredder \/ Reload \/ Tick

Spec == Init /\ [][Next]_vars

\* the web version: every save is a localStorage write made before the store
\* action returns
InitWeb ==
    /\ defaultValue = Null
    /\ \E store \in WebStores : Boot(store, MaxWebOps)

\* no chrome.storage.sync: getItem goes straight to localStorage
NextWeb ==
    \/ LocalGet \/ Rehydrate \/ OnRehydrateStorage
    \/ UserStep \/ Shredder \/ Reload \/ Tick

SpecWeb == InitWeb /\ [][NextWeb]_vars

\* a timeout set by triggerShredder fires if the page stays loaded
SpecShred == InitWeb /\ [][NextWeb]_vars /\ WF_vars(Shredder)

(***************************************************************************)
(* The load path alone, with and without chrome.storage.sync, under the    *)
(* scheduling the runtime gives: a settled promise's continuation runs.    *)
(***************************************************************************)
InitLoad ==
    /\ defaultValue = Null
    /\ \E store \in BootStores \cup WebStores : Boot(store, MaxReloads)

NextLoad == LoadStep \/ SaveStep \/ Reload

SpecLoad == InitLoad /\ [][NextLoad]_vars /\ WF_vars(LoadStep) /\ WF_vars(SaveStep)

(***************************************************************************)
(* storage.getItem alone, for every backend content and either default.    *)
(***************************************************************************)
Dflt == [default |-> TRUE]

GetStores ==
    {<<TRUE, s, l>> : s \in SyncValues, l \in LocalValues}
    \cup WebStores

InitGet ==
    /\ defaultValue \in {Null, Dflt}
    /\ \E store \in GetStores : Boot(store, 0)

NextGet == SyncGet \/ Delay \/ LocalGet

SpecGet == InitGet /\ [][NextGet]_vars

(***************************************************************************)
(* storage.setItem alone, called with documents of every size class.       *)
(***************************************************************************)
\* a board with one task of the given title
BoardWith(title) ==
    [InitialState EXCEPT
        !.tasks = ("task-0" :> [OldTask EXCEPT !.title = title]),
        !.columns = [DefaultColumns EXCEPT !["todo"].taskIds = <<"task-0">>]]

SetDocs == {BoardWith(title) : title \in Titles \cup {LongTitle, HugeTitle}}

SetStores ==
    {<<TRUE, Null, Null>>, <<TRUE, Envelope(BoardWith(LongTitle)), Null>>,
     <<FALSE, Null, Null>>}

InitSet ==
    /\ defaultValue = Null
    /\ \E store \in SetStores : Boot(store, MaxSets)

\* storage.setItem(key, value) is called
SetItem ==
    /\ ops > 0
    /\ Len(saves) < MaxInFlight
    /\ ops' = ops - 1
    /\ \E doc \in SetDocs : Persist(doc, FALSE)
    /\ UNCHANGED <<storeVars, now, view, timers, chrome, sync, loadVars, flips>>

NextSet == SetItem \/ SaveStep

SpecSet == InitSet /\ [][NextSet]_vars

(***************************************************************************)
(* The application, and the store's actions also called directly (as a     *)
(* test or another component would), with arguments the UI never passes.   *)
(***************************************************************************)
\* useBoardStore.getState().deleteColumn(columnId)
CallDeleteColumn(columnId) ==
    /\ ops > 0
    /\ columnId \in DOMAIN columns
    /\ UserSet(deleteColumn(State, columnId))
    /\ UNCHANGED timers

StoreCall == \E columnId \in DOMAIN columns : CallDeleteColumn(columnId)

NextStore == LoadStep \/ SaveStep \/ UserStep \/ Shredder \/ Reload \/ Tick \/ StoreCall

SpecStore == Init /\ [][NextStore]_vars

(***************************************************************************)
(* The store's actions called directly on a board that holds several tasks *)
(* (the record a session that created three tasks left behind).            *)
(***************************************************************************)
BusyDoc ==
    [ state |->
        [ tasks |-> (TaskId(0) :> [id |-> TaskId(0), title |-> "a", createdAt |-> 0]) @@
                    (TaskId(1) :> [id |-> TaskId(1), title |-> "a", createdAt |-> 1]) @@
                    (TaskId(2) :> [id |-> TaskId(2), title |-> "a", createdAt |-> 2]),
          columns |-> ("todo" :> Column("todo", "To Do", <<TaskId(0), TaskId(1)>>)) @@
                      ("in-progress" :> Column("in-progress", "In Progress", <<>>)) @@
                      ("done" :> Column("done", "Done", <<TaskId(2)>>)),
          columnOrder |-> DefaultColumnOrder,
          theme |-> "dark",
          bookmarks |-> DefaultBookmarks ],
      version |-> VERSION ]

\* the clock of the session: later than the creation of every persisted task
BusyNow == 3

InitCalls ==
    /\ defaultValue = Null
    /\ \E store \in {<<TRUE, BusyDoc, Null>>, <<TRUE, Null, Null>>} : BootAt(store, MaxOps, BusyNow)

\* useBoardStore.getState().moveColumn(sourceIndex, destIndex), indices in range
CallMoveColumn(sourceIndex, destIndex) ==
    /\ ops > 0
    /\ sourceIndex \in 0..(Len(columnOrder) - 1)
    /\ destIndex \in 0..(Len(columnOrder) - 1)
    /\ UserSet(moveColumn(State, sourceIndex, destIndex))
    /\ UNCHANGED timers

\* state.columns[columnId].taskIds.filter(...) (and the like in addTask,
\* moveTask, deleteColumn): a TypeError when the column, or its taskIds, is
\* undefined
Raises(state, columnId) ==
    \/ columnId \notin DOMAIN state.columns
    \/ "taskIds" \notin DOMAIN state.columns[columnId]

\* useBoardStore.getState().deleteTask(taskId, columnId), for known and for
\* unknown ids; when the function handed to set throws, the store is not
\* changed and nothing is saved
CallDeleteTask(taskId, columnId) ==
    /\ ops > 0
    /\ IF Raises(State, columnId)
       THEN /\ ops' = ops - 1
            /\ UNCHANGED <<storeVars, now, view, timers, chrome, sync, local, saves, lastSet,
                           loadVars, flips>>
       ELSE /\ UserSet(deleteTask(State, taskId, columnId))
            /\ UNCHANGED timers

\* useBoardStore.getState().updateColumnTitle(columnId, title), for the id of
\* a column and for an id no column has
CallUpdateColumnTitle(columnId, title) ==
    /\ ops > 0
    /\ UserSet(updateColumnTitle(State, columnId, title))
    /\ UNCHANGED timers

\* useBoardStore.getState().moveTask(...) for the task at sourceIndex of the
\* source column and a destIndex up to the length of the destination column
CallMoveTask(taskId, sourceColumnId, destColumnId, sourceIndex, destIndex) ==
    /\ ops > 0
    /\ ~Raises(State, sourceColumnId) /\ ~Raises(State, destColumnId)
    /\ sourceIndex \in 0..(Len(columns[sourceColumnId].taskIds) - 1)
    /\ columns[sourceColumnId].taskIds[sourceIndex + 1] = taskId
    /\ destIndex \in 0..Len(columns[destColumnId].taskIds)
    /\ UserSet(moveTask(State, taskId, sourceColumnId, destColumnId, sourceIndex, destIndex))
    /\ UNCHANGED timers

\* useBoardStore.getState().updateTask(taskId, title, description), for the id
\* of a task and for an id no task has
CallUpdateTask(taskId, title, description) ==
    /\ ops > 0
    /\ UserSet(updateTask(State, taskId, title, description))
    /\ UNCHANGED timers

Calls ==
    \/ \E taskId \in DOMAIN tasks \cup {"task-x"}, columnId \in DOMAIN columns \cup {"col-x"} :
          CallDeleteTask(taskId, columnId)
    \/ \E columnId \in DOMAIN columns \cup {"col-x"}, title \in EditedTitles :
          CallUpdateColumnTitle(columnId, title)
    \/ \E taskId \in DOMAIN tasks \cup {"task-x"}, title \in EditedTitles,
          description \in Descriptions : CallUpdateTask(taskId, title, description)
    \/ \E taskId \in DOMAIN tasks, sourceColumnId \in DOMAIN columns,
          destColumnId \in DOMAIN columns, sourceIndex \in 0..2, destIndex \in 0..3 :
            CallMoveTask(taskId, sourceColumnId, destColumnId, sourceIndex, destIndex)
    \/ \E sourceIndex \in 0..2, destIndex \in 0..2 : CallMoveColumn(sourceIndex, destIndex)

NextCalls == LoadStep \/ SaveStep \/ Calls

SpecCalls == InitCalls /\ [][NextCalls]_vars

(***************************************************************************)
(* Reset: storage.removeItem(key) on the adapter, then the page is loaded  *)
(* again (storage.ts:95-101).  A rejected chrome.storage.sync.remove       *)
(* changes nothing and is not a step.                                      *)
(***************************************************************************)
InitClear ==
    /\ defaultValue = Null
    /\ \E store \in BootStores \cup WebStores : Boot(store, 1)

\* once the load and its saves are over: remove completes, the load path is
\* run again; ops = 0 from then on
RemoveItem ==
    /\ ops > 0 /\ pc \in {"done", "callbackError"} /\ saves = <<>>
    /\ ops' = ops - 1
    /\ IF chrome
       THEN sync' = Null /\ local' = local
       ELSE local' = Null /\ sync' = sync
    /\ chrome' = chrome
    /\ Restart

NextClear == LoadStep \/ SaveStep \/ RemoveItem

SpecClear == InitClear /\ [][NextClear]_vars

(***************************************************************************)
(* Sessions in which every save completes successfully and in dispatch     *)
(* order, and the page is loaded again once no save is in flight.          *)
(***************************************************************************)
\* a step of a save that does not fail; writes land oldest first
SaveInOrder ==
    \/ \E i \in 1..Len(saves) : GetBytesInUse(i) /\ Len(saves') = Len(saves)
    \/ saves # <<>> /\ SyncSet(1) /\ lastSet'.outcome = "resolved"

\* the store is called once it is hydrated, as the components do
NextTrip ==
    LoadStep \/ SaveInOrder \/ (_hasHydrated /\ Calls) \/ Reveal \/ (saves = <<>> /\ Reload)

SpecTrip == InitCalls /\ [][NextTrip]_vars

(***************************************************************************)
(* Sessions in which every save completes successfully, in any order.      *)
(***************************************************************************)
SaveOk == SaveStep /\ lastSet'.outcome # "rejected"

NextOverlap == LoadStep \/ SaveOk \/ (_hasHydrated /\ Calls)

SpecOverlap == InitCalls /\ [][NextOverlap]_vars

(***************************************************************************)
(* migrate alone, called with every subset of the fields of a stored       *)
(* document at versions below, at and above the current one.               *)
(***************************************************************************)
\* a stored board with a field the migration does not read
FullDoc == [isRevealed |-> TRUE] @@ V2Doc.state

\* a stored board whose tasks and bookmarks are present and empty
EmptiedDoc == [tasks |-> <<>>, bookmarks |-> <<>>, theme |-> "dark"]

\* states of the store: fresh, and after addTask without a description
ValidDocs ==
    {InitialState, addTask(InitialState, "todo", "a", Undefined, T0) @@ InitialState}

Subsets(doc) == {[f \in fields |-> doc[f]] : fields \in SUBSET DOMAIN doc}

MigrateDocs ==
    Subsets(FullDoc) \cup Subsets(EmptiedDoc)
    \cup {V1Doc.state, V1Custom.state}
    \cup {Envelope(doc).state : doc \in ValidDocs}

StoredVersions == 0..(VERSION + 1)

InitMigrate ==
    /\ defaultValue = Null
    /\ Boot(<<TRUE, Null, Null>>, 0)

\* migrate(persistedState, version) is called, with a stored document or
\* with what the call before returned
Migrate ==
    /\ \E persistedState \in MigrateDocs, version \in StoredVersions, again \in BOOLEAN :
          /\ again => migrated # Null /\ version = migrated.version
          /\ LET input == IF again THEN migrated.output ELSE persistedState
             IN  migrated' = [ input |-> input, version |-> version,
                               output |-> migrate(input, version), again |-> again ]
    /\ UNCHANGED <<storeVars, now, view, ops, timers, chrome, sync, local, saves, lastSet,
                   pc, defaultValue, attempt, delays, got, primaryRead, localRead, flips>>

NextMigrate == Migrate

SpecMigrate == InitMigrate /\ [][NextMigrate]_vars

(***************************************************************************)
(* Properties.                                                             *)
(***************************************************************************)
\* C1: after any sequence of store mutations every id in every column's
\* taskIds has an entry in tasks, and every task id is in the list of at most
\* one column and at most once in that list.
C1_NoOrphanNoDuplicate ==
    \A c \in DOMAIN columns :
        \A i \in 1..Len(columns[c].taskIds) :
            /\ columns[c].taskIds[i] \in DOMAIN tasks
            /\ \A d \in DOMAIN columns :
                  \A j \in 1..Len(columns[d].taskIds) :
                      columns[d].taskIds[j] = columns[c].taskIds[i] => d = c /\ j = i

\* C2: starting from a document whose columnOrder contains "done", "done" is
\* the last element of columnOrder after every addColumn, moveColumn and
\* deleteColumn.
C2_DoneLast ==
    Includes(columnOrder, "done") => columnOrder[Len(columnOrder)] = "done"

\* C3: within a load cycle _hasHydrated starts false and goes from false to
\* true exactly once, when the load completes, and never returns to false,
\* whether a record was loaded, none existed or the load failed.
C3_HydratedOncePerCycle ==
    /\ pc # "done" => ~_hasHydrated /\ flips = 0
    /\ pc = "done" => _hasHydrated /\ flips = 1

\* a record of the local backend was loaded after every primary read failed
C3_Witness ==
    /\ pc = "done" /\ _hasHydrated /\ flips = 1
    /\ sync = Null /\ columnOrder = V2Doc.state.columnOrder

\* C4: on every execution of the load path, whatever the backends do,
\* _hasHydrated eventually becomes true.
C4_EventuallyHydrated == (pc # "done") ~> _hasHydrated

\* the load completed although the save of the migrated state was rejected
C4_Witness ==
    /\ pc = "done" /\ _hasHydrated
    /\ lastSet.outcome = "rejected" /\ Len(saves) = 1

\* C5: while _hasHydrated is false only the loading screen is shown; the
\* board, and with it every user-invoked mutation, comes only in states where
\* _hasHydrated is true.
C5_LoadingScreenUntilHydrated ==
    /\ [](~_hasHydrated => view = "loading")
    /\ [][UserStep => _hasHydrated /\ view = "board"]_vars

\* a user mutation has been made on the rendered board
C5_Witness == _hasHydrated /\ view = "board" /\ TaskId(T0) \in DOMAIN tasks

\* C6: once _hasHydrated is true, every id in columnOrder has an entry in
\* columns.
C6_ColumnOrderInColumns ==
    _hasHydrated => \A i \in 1..Len(columnOrder) : columnOrder[i] \in DOMAIN columns

\* C7: every value handed to the backing store holds exactly tasks, columns,
\* columnOrder, theme and bookmarks.
C7_OnlyPersistedFields ==
    /\ \A i \in 1..Len(saves) : DOMAIN saves[i].value.state = PersistedFields
    /\ lastSet.value # Null => DOMAIN lastSet.value.state = PersistedFields

\* a save is in flight from a state that is hydrated and revealed
C7_Witness ==
    /\ _hasHydrated /\ isRevealed
    /\ \E i \in 1..Len(saves) : saves[i].value.state.tasks = tasks /\ tasks # <<>>

\* C8: when the primary backend rejects a set with a quota error, set writes
\* the value to the local backend and resolves.
C8_QuotaFallbackResolves ==
    lastSet.failed = "sync.set" /\ lastSet.error = "quota"
        => lastSet.outcome = "resolved"

\* C9: when the primary backend rejects a set with another error, set
\* re-raises it and writes nothing to the local backend.
C9_OtherErrorRethrown ==
    lastSet.failed = "sync.set" /\ lastSet.error = "other"
        => /\ lastSet.outcome = "rejected"
           /\ ~lastSet.wroteLocal
           /\ ~lastSet.wroteSync

\* such a set has settled while the local backend holds no record
C9_Witness ==
    /\ lastSet.failed = "sync.set" /\ lastSet.error = "other"
    /\ lastSet.value # Null /\ local = Null

\* C10: get resolves with the primary backend's value when a primary attempt
\* succeeds (the default when the key is not stored), with the local
\* backend's value when all primary attempts fail, and with the default when
\* the local read fails, holds nothing or does not parse.
C10_GetResult ==
    pc = "then" =>
        IF chrome /\ primaryRead = "ok"
        THEN got = IF sync = Null THEN defaultValue ELSE sync
        ELSE /\ chrome => primaryRead = "failed" /\ attempt = MAX_RETRIES
             /\ got = IF localRead = "ok" /\ local # Null /\ local # Garbage
                      THEN local.json ELSE defaultValue

\* all primary attempts failed, the local item does not parse, and the
\* default is not null
C10_Witness ==
    /\ pc = "then" /\ chrome /\ primaryRead = "failed" /\ localRead = "ok"
    /\ local = Garbage /\ defaultValue = Dflt /\ got = Dflt

\* C11: get makes at most 3 attempts on the primary backend and none after
\* one that succeeds; before attempt k+1 it has waited 300 ms times each of
\* the failed attempts 1..k; after the third failure it reads the local
\* backend without a further wait.
C11_RetrySchedule ==
    /\ attempt \in 1..3
    /\ delays = [k \in 1..(attempt - 1) |-> 300 * k]
    /\ pc = "delay" => primaryRead = "failed" /\ attempt < 3
    /\ chrome /\ pc = "localStorage" => primaryRead = "failed" /\ attempt = 3
    /\ primaryRead = "ok" => pc = "then"

\* the third attempt has failed: two waits were made, the local read is next
C11_Witness ==
    /\ chrome /\ pc = "localStorage" /\ primaryRead = "failed"
    /\ attempt = 3 /\ delays = <<300, 600>>

\* C12: a value over the per-item cap of 8,192 bytes, or one that takes the
\* usage over the quota of 102,400 bytes, is only logged: every call that is
\* past the size checks has its write to the primary backend issued, and
\* every call that settled past getBytesInUse settled on that write.
C12_SizeChecksOnlyLog ==
    /\ \A i \in 1..Len(saves) :
          saves[i].pc # "getBytesInUse" =>
              /\ saves[i].pc = "sync.set"
              /\ "warn" \in saves[i].logged <=> EstimatedSize(saves[i].value) > 8192
              /\ EstimatedSize(saves[i].value) > 102400 => "error" \in saves[i].logged
    /\ chrome /\ lastSet.value # Null /\ lastSet.failed # "getBytesInUse"
          => lastSet.wroteSync \/ lastSet.failed = "sync.set"

\* the write of a value over both limits is issued, both messages logged
C12_Witness ==
    \E i \in 1..Len(saves) :
        /\ saves[i].pc = "sync.set"
        /\ EstimatedSize(saves[i].value) > 102400
        /\ saves[i].logged = {"warn", "error"}

\* C13: every call of a store action dispatches exactly one save, a call of
\* its own added to those in flight, and the document handed to it is the
\* persisted subset of the state as it is after the action.
C13_OneSavePerMutation ==
    [][(UserStep \/ Shredder \/ OnRehydrateStorage) =>
          /\ Len(saves') = Len(saves) + 1
          /\ SubSeq(saves', 1, Len(saves)) = saves
          /\ saves'[Len(saves')].pc = "getBytesInUse"
          /\ saves'[Len(saves')].value =
                [state |-> JSONstate(partialize(State')), version |-> VERSION]]_vars

\* the save of an addColumn is in flight with the new column order
C13_Witness ==
    /\ Len(columnOrder) = 4
    /\ \E i \in 1..Len(saves) :
          saves[i].pc = "getBytesInUse" /\ saves[i].value.state.columnOrder = columnOrder

\* C14: when a save is rejected the in-memory state stays exactly as the
\* store actions left it: the step that settles the save changes no field of
\* the store.
C14_NoRollbackOnFailedSave ==
    [][SaveStep /\ Len(saves') < Len(saves) /\ lastSet'.outcome = "rejected" =>
          UNCHANGED <<tasks, columns, columnOrder, isRevealed, theme, bookmarks,
                      _hasHydrated>>]_vars

\* the save of an addTask was rejected and the task is still in the store
C14_Witness ==
    /\ lastSet.outcome = "rejected" /\ saves = <<>>
    /\ TaskId(T0) \in DOMAIN tasks /\ lastSet.value.state.tasks = JSONstate(State).tasks

\* what a field of a document reads as: undefined when the key is missing
Field(obj, key) == IF key \in DOMAIN obj THEN obj[key] ELSE Undefined

\* C15: for a stored version below 2 and a persisted document holding any
\* subset of tasks, columns, columnOrder, theme and bookmarks, each present
\* field of the document migrate returns is the persisted value and each
\* absent one is the default of a fresh document.
C15_MigrateCoalesce ==
    migrated # Null /\ migrated.version < 2 =>
        \A f \in PersistedFields :
            /\ f \in DOMAIN migrated.output
            /\ migrated.output[f] =
                  IF f \in DOMAIN migrated.input THEN migrated.input[f]
                  ELSE partialize(InitialState)[f]

\* a version 1 document with only tasks and columnOrder has been migrated
C15_Witness ==
    /\ migrated # Null /\ migrated.version = 1
    /\ migrated.input = V1Doc.state
    /\ migrated.output.columns = DefaultColumns
    /\ migrated.output.columnOrder = <<"todo", "done">>

\* C16: for a stored version below 2, every field present in the persisted
\* document, recognized by the migration or not, is present with the same
\* value in the document migrate returns.
C16_MigratePreservesFields ==
    migrated # Null /\ migrated.version < 2 =>
        \A f \in DOMAIN migrated.input :
            f \in DOMAIN migrated.output /\ migrated.output[f] = migrated.input[f]

\* C17: for a stored version of 2 or more migrate returns the persisted
\* document unchanged, so that the serialized persisted subset of a valid
\* state D, migrated at version 2, reads field for field as D's persisted
\* subset.
C17_MigratePassthrough ==
    migrated # Null /\ migrated.version >= VERSION =>
        /\ migrated.output = migrated.input
        /\ \A D \in ValidDocs :
              migrated.input = Envelope(D).state /\ migrated.version = VERSION =>
                  /\ DOMAIN migrated.output = PersistedFields
                  /\ \A f \in PersistedFields \ {"tasks"} : migrated.output[f] = D[f]
                  /\ DOMAIN migrated.output.tasks = DOMAIN D.tasks
                  /\ \A t \in DOMAIN D.tasks :
                        \A key \in {"id", "title", "description", "createdAt"} :
                            Field(migrated.output.tasks[t], key) = Field(D.tasks[t], key)

\* the serialized state after an addTask has been migrated at version 2
C17_Witness ==
    /\ migrated # Null /\ migrated.version = VERSION
    /\ TaskId(T0) \in DOMAIN Spread(migrated.input, "tasks")
    /\ DOMAIN migrated.output = PersistedFields

\* C18: for a stored version below 2 and any partial persisted document the
\* document migrate returns has all five fields, and migrate applied to it
\* at the same version returns it unchanged.
C18_MigrateTotalIdempotent ==
    migrated # Null /\ migrated.version < VERSION =>
        /\ PersistedFields \subseteq DOMAIN migrated.output
        /\ migrated.again => migrated.output = migrated.input
        /\ migrate(migrated.output, migrated.version) = migrated.output

\* migrate has been applied to what it returned for a partial document
C18_Witness ==
    /\ migrated # Null /\ migrated.again /\ migrated.version = 1
    /\ migrated.input.columnOrder = <<"todo", "done">>
    /\ migrated.input.bookmarks = DefaultBookmarks

\* C19: deleteColumn(c), for a column c other than "done" that exists,
\* removes c from columns and from columnOrder and the ids of c's taskIds
\* from tasks; every other column, every other task and the order of the
\* remaining column ids stay as they were.
C19_DeleteColumnCascade ==
    [][DeleteColumn =>
          \E c \in DOMAIN columns \ {"done"} :
              /\ DOMAIN columns' = DOMAIN columns \ {c}
              /\ \A d \in DOMAIN columns' : columns'[d] = columns[d]
              /\ columnOrder' = SelectSeq(columnOrder, LAMBDA id : id # c)
              /\ DOMAIN tasks' =
                    DOMAIN tasks \ {columns[c].taskIds[i] : i \in 1..Len(columns[c].taskIds)}
              /\ \A t \in DOMAIN tasks' : tasks'[t] = tasks[t]
              /\ UNCHANGED <<isRevealed, theme, bookmarks, _hasHydrated>>]_vars

\* the stored custom column has been deleted, and its task with it
C19_Witness ==
    /\ _hasHydrated /\ theme = V2Doc.state.theme
    /\ "col-0" \notin DOMAIN columns /\ "task-0" \notin DOMAIN tasks
    /\ columnOrder = <<"todo", "done">>

\* C20: deleteColumn("done") changes no field of the store, in any state; so
\* "done", in columns from the start, stays in columns whatever calls are
\* made.
C20_DoneNotDeleted ==
    /\ []("done" \in DOMAIN columns)
    /\ [][CallDeleteColumn("done") => UNCHANGED storeVars]_vars

\* one call has been made, deleteColumn("done") on a board with a stored
\* task: its save and the save of setHasHydrated are in flight, both with
\* all the columns
C20_Witness ==
    /\ _hasHydrated /\ ops = MaxOps - 1 /\ ~isRevealed
    /\ "done" \in DOMAIN columns /\ "task-0" \in DOMAIN tasks
    /\ Len(saves) = 2
    /\ \A i \in 1..Len(saves) :
          /\ saves[i].pc = "getBytesInUse" /\ ~saves[i].awaited
          /\ saves[i].value.state.columns = columns

\* C21: for in-range indices moveColumn(srcIdx, dstIdx) leaves the order got
\* by removing the element at srcIdx, inserting it at dstIdx and then, when
\* "done" is present and not last, moving "done" to the end; the result is a
\* permutation of the order before the call.
C21_MoveColumn ==
    [][\A srcIdx \in 0..2, dstIdx \in 0..2 :
          CallMoveColumn(srcIdx, dstIdx) =>
            LET n == Len(columnOrder)
                moved == columnOrder[srcIdx + 1]
                rest == [i \in 1..(n - 1) |->
                            IF i <= srcIdx THEN columnOrder[i] ELSE columnOrder[i + 1]]
                inserted == [i \in 1..n |->
                                IF i <= dstIdx THEN rest[i]
                                ELSE IF i = dstIdx + 1 THEN moved ELSE rest[i - 1]]
                others == SelectSeq(inserted, LAMBDA id : id # "done")
                expected == IF (\E i \in 1..n : inserted[i] = "done") /\ inserted[n] # "done"
                            THEN others \o <<"done">> ELSE inserted
            IN  /\ columnOrder' = expected
                /\ Len(columnOrder') = n
                /\ \A id \in {columnOrder[i] : i \in 1..n} :
                      Cardinality({i \in 1..n : columnOrder'[i] = id})
                        = Cardinality({i \in 1..n : columnOrder[i] = id})]_vars

\* moveColumn(0, 2) on [todo, in-progress, done] has been called
C21_Witness ==
    /\ columnOrder = <<"in-progress", "todo", "done">>
    /\ lastSet # NoSet
    /\ ops = MaxOps - 1

\* what C22 states of a moveTask call: the task is at dstIdx of the
\* destination, the other ids of source and destination keep their order, the
\* task map and every other column are as before
MovedTo(taskId, sourceColumnId, destColumnId, dstIdx) ==
    LET others(taskIds) == SelectSeq(taskIds, LAMBDA id : id # taskId)
    IN  /\ Len(columns'[destColumnId].taskIds) > dstIdx
        /\ columns'[destColumnId].taskIds[dstIdx + 1] = taskId
        /\ others(columns'[destColumnId].taskIds) = others(columns[destColumnId].taskIds)
        /\ Len(columns'[destColumnId].taskIds)
             = Len(others(columns[destColumnId].taskIds)) + 1
        /\ sourceColumnId # destColumnId =>
             columns'[sourceColumnId].taskIds = others(columns[sourceColumnId].taskIds)
        /\ tasks' = tasks
        /\ DOMAIN columns' = DOMAIN columns
        /\ \A columnId \in DOMAIN columns \ {sourceColumnId, destColumnId} :
              columns'[columnId] = columns[columnId]
        /\ \A columnId \in {sourceColumnId, destColumnId} :
              /\ columns'[columnId].id = columns[columnId].id
              /\ columns'[columnId].title = columns[columnId].title

\* C22 (as amended): when taskId is the element at srcIdx of the source list
\* and dstIdx is at most the length the destination list has once the task is
\* taken out (for a move within one column: at most its length minus one),
\* moveTask takes the task out of the source and puts it at dstIdx of the
\* destination; other ids keep their order, tasks and other columns are
\* unchanged.
C22_MoveTask ==
    [][ops' # ops =>
        \A taskId \in DOMAIN tasks, sourceColumnId \in DOMAIN columns,
           destColumnId \in DOMAIN columns, srcIdx \in 0..2, dstIdx \in 0..3 :
             /\ CallMoveTask(taskId, sourceColumnId, destColumnId, srcIdx, dstIdx)
             /\ dstIdx <= Len(SelectSeq(columns[destColumnId].taskIds, LAMBDA id : id # taskId))
             => MovedTo(taskId, sourceColumnId, destColumnId, dstIdx)]_vars

\* moveTask("task-0", "todo", "done", 0, 0) has been called on the board that
\* holds task-0 and task-1 in todo and task-2 in done
C22_Witness ==
    /\ columns["todo"].taskIds = <<"task-1">>
    /\ columns["done"].taskIds = <<"task-0", "task-2">>
    /\ ops = MaxOps - 1

\* C22 as stated: the same for every dstIdx up to the length of the
\* destination list before the call
C22_MoveTaskAsStated ==
    [][ops' # ops =>
        \A taskId \in DOMAIN tasks, sourceColumnId \in DOMAIN columns,
           destColumnId \in DOMAIN columns, srcIdx \in 0..2, dstIdx \in 0..3 :
             /\ CallMoveTask(taskId, sourceColumnId, destColumnId, srcIdx, dstIdx)
             /\ dstIdx <= Len(columns[destColumnId].taskIds)
             => MovedTo(taskId, sourceColumnId, destColumnId, dstIdx)]_vars

\* C23: every addTask on an existing column creates a task whose id is not a
\* key of tasks before the call, also when the clock has not advanced since
\* the call before: tasks grows by one entry and the column's taskIds by that
\* id at its end.
C23_AddTaskFreshId ==
    [][AddTask =>
          /\ TaskId(now) \notin DOMAIN tasks
          /\ Cardinality(DOMAIN tasks') = Cardinality(DOMAIN tasks) + 1
          /\ \E columnId \in DOMAIN columns :
                columns'[columnId].taskIds = Append(columns[columnId].taskIds, TaskId(now))]_vars

\* C24: when neither backend holds a record, the load completes with the
\* document equal to the hardcoded defaults and _hasHydrated true (checked up
\* to the first interaction; the only record a backend can then hold is the
\* one the load itself saved).
C24_FirstRunDefaults ==
    /\ pc = "done" /\ ops = MaxOps
    /\ sync \in {Null, Envelope(InitialState)} /\ local = Null
    => /\ tasks = <<>>
       /\ columns = DefaultColumns
       /\ columnOrder = DefaultColumnOrder
       /\ theme = "dark"
       /\ bookmarks = DefaultBookmarks
       /\ ~isRevealed
       /\ _hasHydrated

\* a first run has completed its load, the save of the load not yet written
C24_Witness ==
    /\ pc = "done" /\ ops = MaxOps /\ sync = Null /\ local = Null
    /\ _hasHydrated /\ columns = DefaultColumns /\ view = "board"

\* C25: after remove(key) has completed, the next load ends with the default
\* document, first run alike, whatever the primary backend does during that
\* load, failing every read so that localStorage is consulted included.
C25_LoadAfterRemove ==
    ops = 0 /\ pc \in {"callback", "callbackError", "done"}
    => /\ tasks = <<>>
       /\ columns = DefaultColumns
       /\ columnOrder = DefaultColumnOrder
       /\ theme = "dark"
       /\ bookmarks = DefaultBookmarks

\* C26: when the stored raw value cannot be parsed, the load behaves as if it
\* were absent: the read gives the default and no error, the document stays at
\* the defaults and _hasHydrated becomes true.
C26_UnparsableAsAbsent ==
    local = Garbage =>
        /\ pc = "then" /\ localRead = "ok" => got = defaultValue
        /\ ~chrome =>
              /\ pc # "callbackError"
              /\ tasks = <<>>
              /\ columns = DefaultColumns
              /\ columnOrder = DefaultColumnOrder
              /\ theme = "dark"
              /\ bookmarks = DefaultBookmarks
              /\ pc = "done" => _hasHydrated

\* localStorage held an unparsable item and has been read without a throw
C26_Witness ==
    pc = "then" /\ localRead = "ok" /\ local = Garbage /\ got = Null

\* C27: rendering the board in a hydrated state whose columnOrder holds an id
\* with no entry in columns does not fault: the missing column is skipped and
\* the board is shown.
C27_MissingColumnSkipped ==
    /\ _hasHydrated
    /\ \E i \in 1..Len(columnOrder) : columnOrder[i] \notin DOMAIN columns
    => view = "board"

\* C28: updateTask with an id that is no key of tasks leaves tasks unchanged
\* (no entry is created); with the id of a task it changes that task's title
\* and description only: its id and createdAt, the other tasks and the columns
\* are unchanged.
C28_UpdateTask ==
    [][\A taskId \in DOMAIN tasks \cup {"task-x"}, title \in EditedTitles,
          description \in Descriptions :
            CallUpdateTask(taskId, title, description) =>
              IF taskId \notin DOMAIN tasks
              THEN tasks' = tasks
              ELSE /\ DOMAIN tasks' = DOMAIN tasks
                   /\ tasks'[taskId].title = title
                   /\ tasks'[taskId].description = description
                   /\ \A key \in DOMAIN tasks[taskId] \ {"title", "description"} :
                         key \in DOMAIN tasks'[taskId] /\ tasks'[taskId][key] = tasks[taskId][key]
                   /\ DOMAIN tasks'[taskId] \subseteq DOMAIN tasks[taskId] \cup {"title", "description"}
                   /\ \A other \in DOMAIN tasks \ {taskId} : tasks'[other] = tasks[other]
                   /\ columns' = columns
                   /\ columnOrder' = columnOrder]_vars

C30_ShredderLeavesNoOrphan ==
    [][Shredder =>
          \A columnId \in DOMAIN columns' :
             \A i \in 1..Len(columns'[columnId].taskIds) :
                columns'[columnId].taskIds[i] \in DOMAIN tasks']_vars

\* C31: a load cycle in which every read of the primary backend fails and the
\* defaults are adopted causes, with no user mutation, no write to the primary
\* backend: the document it held before the load is still there after
\* hydration (checked in the first load cycle of sessions without interaction).
C31_NoWriteAfterFailedLoad ==
    [][/\ ops = MaxReloads /\ _hasHydrated
       /\ sync # Null
       /\ sync.state # JSONstate(partialize(InitialState))
       /\ JSONstate(partialize(State)) = JSONstate(partialize(InitialState))
       => sync' = sync]_vars

\* C32 (as amended): once all dispatched saves have completed successfully
\* the primary backend holds the value of the save that completed last, and
\* every save carries the persisted subset of the document as it is when the
\* save is dispatched (so the backend holds the current document exactly when
\* the most recently dispatched save completes last).
C32_LastCompletedWins ==
    /\ [](saves = <<>> /\ lastSet # NoSet => sync = lastSet.value)
    /\ [][Len(saves') > Len(saves) =>
            saves'[Len(saves')].value = Envelope(State')]_vars

\* two saves overlap: the write of the later one has landed while the earlier
\* one, with another value, is still in flight
C32_Witness ==
    /\ Len(saves) = 1
    /\ saves[1].value # Envelope(State)
    /\ sync = Envelope(State)
    /\ lastSet.value = sync

\* C32 as stated: for every interleaving of the completions, once all saves
\* have completed successfully the primary backend holds the persisted subset
\* of the in-memory document.
C32_BackendHoldsDocument ==
    pc = "done" /\ saves = <<>> => sync = Envelope(State)

\* C33: after a set whose value went to localStorage because the primary
\* backend rejected it for quota, a later get with the primary backend
\* readable returns that value, not the older value (or absence) the primary
\* backend still holds.
C33_GetReturnsFallbackValue ==
    /\ pc = "then" /\ primaryRead = "ok" /\ saves = <<>>
    /\ lastSet.outcome = "rejected" /\ lastSet.wroteLocal
    /\ local = JSONstringify(lastSet.value)
    => got = lastSet.value

C35_ShredderFires ==
    /\ \A taskId \in {TaskId(n) : n \in 0..MaxNow} :
          Includes(timers, taskId) ~>
             \/ taskId \notin DOMAIN tasks /\ ~Includes(columns["done"].taskIds, taskId)
             \/ ~_hasHydrated
    /\ [][Shredder => /\ DOMAIN tasks' = DOMAIN tasks \ {Head(timers)}
                      /\ ~Includes(columns'["done"].taskIds, Head(timers))]_vars
    /\ [][Len(timers') > Len(timers) =>
            \E columnId \in DOMAIN columns \ {"done"} :
               Includes(columns[columnId].taskIds, timers'[Len(timers')])]_vars
    /\ [](~_hasHydrated => timers = <<>>)

\* task-0 has been dragged from col-0 into done and its delayed delete is
\* pending
C35_Witness ==
    /\ _hasHydrated /\ timers = <<"task-0">>
    /\ "task-0" \in DOMAIN tasks
    /\ "col-0" \in DOMAIN columns
    /\ columns["col-0"].taskIds = <<>>
    /\ columns["done"].taskIds = <<"task-0">>

\* C35 as stated: the delayed delete always fires, so a pending one goes away
\* only by removing its task.
C35_DelayedDeleteAlwaysFires ==
    [][\A taskId \in {TaskId(n) : n \in 0..MaxNow} :
          Includes(timers, taskId) /\ ~Includes(timers', taskId) =>
             _hasHydrated' /\ taskId \notin DOMAIN tasks']_vars

\* C36: every addColumn creates a column whose id is not yet a key of columns,
\* also when the clock has not advanced since the call before, with empty
\* taskIds; afterwards columnOrder holds the new id exactly once and no id
\* twice, and the columns there were and their order are unchanged.
C36_AddColumnFreshId ==
    [][AddColumn =>
          LET newColumnId == ColumnId(now)
              n == Len(columnOrder')
          IN  /\ newColumnId \notin DOMAIN columns
              /\ columns'[newColumnId].taskIds = <<>>
              /\ Cardinality({i \in 1..n : columnOrder'[i] = newColumnId}) = 1
              /\ \A i, j \in 1..n : columnOrder'[i] = columnOrder'[j] => i = j
              /\ \A columnId \in DOMAIN columns : columns'[columnId] = columns[columnId]
              /\ SubSeq(columnOrder', 1, Len(columnOrder)) = columnOrder]_vars

\* C37: deleteTask(taskId, columnId) on an existing column removes taskId from
\* tasks whether or not that column lists it, removes it from that column's
\* taskIds if present, and leaves the taskIds of every other column, every
\* other task and columnOrder unchanged.
C37_DeleteTask ==
    [][\A taskId \in DOMAIN tasks \cup {"task-x"}, columnId \in DOMAIN columns :
          CallDeleteTask(taskId, columnId) /\ ~Raises(State, columnId) =>
             /\ DOMAIN tasks' = DOMAIN tasks \ {taskId}
             /\ \A other \in DOMAIN tasks \ {taskId} : tasks'[other] = tasks[other]
             /\ columns'[columnId].taskIds
                  = SelectSeq(columns[columnId].taskIds, LAMBDA id : id # taskId)
             /\ DOMAIN columns' = DOMAIN columns
             /\ \A other \in DOMAIN columns \ {columnId} : columns'[other] = columns[other]
             /\ columnOrder' = columnOrder]_vars

\* deleteTask("task-0", "done") has been called while todo lists task-0
C37_Witness ==
    /\ ops = MaxOps - 1
    /\ DOMAIN tasks = {"task-1", "task-2"}
    /\ columns["todo"].taskIds = <<"task-0", "task-1">>
    /\ columns["done"].taskIds = <<"task-2">>

\* C38: updateColumnTitle with an id that is no key of columns leaves columns
\* unchanged (no entry is created); with the id of a column it changes that
\* column's title only: its id and taskIds, the other columns, tasks and
\* columnOrder are unchanged.
C38_UpdateColumnTitle ==
    [][\A columnId \in DOMAIN columns \cup {"col-x"}, title \in EditedTitles :
          CallUpdateColumnTitle(columnId, title) =>
             IF columnId \notin DOMAIN columns
             THEN columns' = columns
             ELSE /\ DOMAIN columns' = DOMAIN columns
                  /\ columns'[columnId].title = title
                  /\ DOMAIN columns'[columnId] = DOMAIN columns[columnId] \cup {"title"}
                  /\ \A key \in DOMAIN columns[columnId] \ {"title"} :
                        columns'[columnId][key] = columns[columnId][key]
                  /\ \A other \in DOMAIN columns \ {columnId} : columns'[other] = columns[other]
                  /\ tasks' = tasks
                  /\ columnOrder' = columnOrder]_vars

\* C39: no mutation of the store raises to its caller, whatever the arguments
\* (ids of columns or tasks that do not exist included) and whatever the
\* outcome of the save: every call returns.  Stated for the deleteTask calls.
C39_NoMutationRaises ==
    [][\A taskId \in DOMAIN tasks \cup {"task-x"}, columnId \in DOMAIN columns \cup {"col-x"} :
          CallDeleteTask(taskId, columnId) => ~Raises(State, columnId)]_vars

\* C40: with the primary backend available every set call issues a write of
\* the value to it, also when the usage query (getBytesInUse) fails: a failure
\* of the usage query alone never leaves the value unwritten.
C40_WriteIssuedAfterUsageQuery ==
    [][\A i \in 1..Len(saves) :
          GetBytesInUse(i) =>
             /\ Len(saves') = Len(saves)
             /\ saves'[i].pc = "sync.set"
             /\ saves'[i].value = saves[i].value]_vars

====
